---------------------------- MODULE Spec2Model ----------------------------
(***************************************************************************)
(* Model of jira-spillover.py: the two paginated fetch loops (get_sprints, *)
(* get_issues_for_sprint), the classifier get_spillover_reason and the     *)
(* fetch / classify / aggregate pipeline of analyze_spillovers.            *)
(*                                                                         *)
(* JSON values are tagged records, so that "key absent", "key present with *)
(* null" and "key present with a value" stay distinct, as they are for     *)
(* dict.get in the source.  A Python exception is an outcome of its own.   *)
(***************************************************************************)
EXTENDS Integers, Sequences, FiniteSets

VARIABLES
    db,         \* the upstream service's data (never changes during a run)
    pc,         \* position in analyze_spillovers / in the classifier call
    start_at,   \* local start_at of the running fetch loop
    fetched,    \* local list (sprints / issues) of the running fetch loop
    requests,   \* every page request sent so far: [res, startAt]
    responses,  \* the server's answer to each request: [n, isLast]
    callStart,  \* Len(requests) when the running fetch call began
    sprints,    \* analyze_spillovers: result of get_sprints
    si,         \* analyze_spillovers: index of the sprint the for loop is at
    issues,     \* analyze_spillovers: result of get_issues_for_sprint
    ii,         \* analyze_spillovers: index of the issue the inner loop is at
    records,    \* analyze_spillovers: the records list
    summary,    \* analyze_spillovers: the rows of the summary frame
    err,        \* the exception that ended the run ("" when none)
    arg,        \* classifier call: [issue, sprint_start, sprint_end]
    result      \* classifier call: its outcome

vars == <<db, pc, start_at, fetched, requests, responses, callStart, sprints,
          si, issues, ii, records, summary, err, arg, result>>

(***************************************************************************)
(* Bounds                                                                  *)
(***************************************************************************)
MaxRecords == 3      \* records of the list served in the paging scenarios
MaxRequests == 4     \* page requests one fetch call may send in the model
MaxRunSprints == 2   \* sprints served in the pipeline scenarios
MaxRunIssues == 2    \* issues served, over all sprints, in those scenarios
MaxTime == 2         \* timestamps are 0..MaxTime
RunPageSize == 1     \* page size of the "paged" server of those scenarios

(***************************************************************************)
(* Program constants                                                       *)
(***************************************************************************)
UnderestimatedPoints == 8

R_SCOPE == "Scope added mid-sprint"
R_EFFORT == "Underestimated effort"
R_CARRIED == "Carried over work post-sprint"
R_NOASSIGNEE == "No assignee during sprint"
R_GENERAL == "General delay / blocked"
NoneReason == "<None>"
Unassigned == "Unassigned"

(***************************************************************************)
(* JSON values                                                             *)
(***************************************************************************)
Times == 0..MaxTime
Absent == [tag |-> "absent", v |-> 0, s |-> ""]
Null == [tag |-> "null", v |-> 0, s |-> ""]
Garbage == [tag |-> "garbage", v |-> 0, s |-> ""]   \* a string that is no date
Ts(t) == [tag |-> "ts", v |-> t, s |-> ""]          \* a well-formed timestamp
Num(n) == [tag |-> "num", v |-> n, s |-> ""]
Obj(name) == [tag |-> "obj", v |-> 0, s |-> name]   \* an object carrying a name

\* Python values the classifier computes with
PyNone == [tag |-> "None", v |-> 0, s |-> ""]
NaT == [tag |-> "NaT", v |-> 0, s |-> ""]
Timestamp(t) == [tag |-> "Timestamp", v |-> t, s |-> ""]

Return(x) == [kind |-> "return", val |-> x]
Raise(e) == [kind |-> "raise", val |-> e]

(***************************************************************************)
(* get_spillover_reason and what it calls                                  *)
(***************************************************************************)
StatusNames == {"Done", "done", "DONE", "In Progress", "To Do"}

\* str.lower on the status category names that occur
Lower(name) ==
    CASE name \in {"Done", "done", "DONE"} -> "done"
      [] name = "In Progress" -> "in progress"
      [] name = "To Do" -> "to do"
      [] OTHER -> name

\* fields.get("status", {}).get("statusCategory", {}).get("name", ""):
\* the default {} is used only when the key is absent; a null value is
\* returned as None, and None.get raises AttributeError.
StatusOf(issue) ==
    CASE issue.status.tag = "absent" -> Return("")
      [] issue.status.tag = "null" -> Raise("AttributeError")
      [] OTHER -> Return(issue.status.s)

\* fields.get("assignee", {}).get("displayName", "Unassigned")
AssigneeOf(issue) ==
    CASE issue.assignee.tag = "absent" -> Return(Unassigned)
      [] issue.assignee.tag = "null" -> Raise("AttributeError")
      [] OTHER -> Return(issue.assignee.s)

\* fields.get("customfield_10016", 0): the default 0 is used only when the
\* key is absent; a null value is returned as None.
StoryPointsOf(issue) ==
    IF issue.points.tag = "absent" THEN Num(0)
    ELSE IF issue.points.tag = "null" THEN PyNone
    ELSE issue.points

\* "story_points and story_points >= 8"
PointsMatch(sp) == sp.tag = "num" /\ sp.v # 0 /\ sp.v >= UnderestimatedPoints

\* pd.to_datetime(x, errors="coerce") of fields.get(...): the function
\* returns None for None, NaT for a string that is no date.
ToDatetimeCoerce(x) ==
    CASE x.tag \in {"absent", "null"} -> PyNone
      [] x.tag = "garbage" -> NaT
      [] OTHER -> Timestamp(x.v)

\* pd.to_datetime(x) with the default errors="raise"
ToDatetime(x) ==
    CASE x.tag \in {"absent", "null"} -> Return(PyNone)
      [] x.tag = "garbage" -> Raise("ValueError")
      [] OTHER -> Return(Timestamp(x.v))

\* a > b on the values above: an ordering comparison with None raises
\* TypeError, one with NaT is False.
Gt(a, b) ==
    IF a.tag = "None" \/ b.tag = "None" THEN Raise("TypeError")
    ELSE IF a.tag = "NaT" \/ b.tag = "NaT" THEN Return(FALSE)
    ELSE Return(a.v > b.v)

\* lines 60-67, reached when "created > start" was False
LaterRules(issue, sprint_end) ==
    LET story_points == StoryPointsOf(issue)
        updated == ToDatetimeCoerce(issue.updated)
        assignee == AssigneeOf(issue).val
    IN  IF PointsMatch(story_points) THEN Return(R_EFFORT)
        ELSE LET e == ToDatetime(sprint_end)
             IN  IF e.kind = "raise" THEN e
                 ELSE LET c == Gt(updated, e.val)
                      IN  IF c.kind = "raise" THEN c
                          ELSE IF c.val THEN Return(R_CARRIED)
                          ELSE IF assignee = Unassigned THEN Return(R_NOASSIGNEE)
                          ELSE Return(R_GENERAL)

get_spillover_reason(issue, sprint_start, sprint_end) ==
    LET status == StatusOf(issue)
        created == ToDatetimeCoerce(issue.created)
        assignee == AssigneeOf(issue)
    IN  IF status.kind = "raise" THEN status
        ELSE IF assignee.kind = "raise" THEN assignee
        ELSE IF Lower(status.val) = "done" THEN Return(NoneReason)
        ELSE LET s == ToDatetime(sprint_start)
             IN  IF s.kind = "raise" THEN s
                 ELSE LET c == Gt(created, s.val)
                      IN  IF c.kind = "raise" THEN c
                          ELSE IF c.val THEN Return(R_SCOPE)
                          ELSE LaterRules(issue, sprint_end)

(***************************************************************************)
(* Inputs of the classifier                                                *)
(***************************************************************************)
StatusVals == {Absent, Null} \cup {Obj(n) : n \in StatusNames}
TimeVals == {Absent, Garbage} \cup {Ts(t) : t \in Times}
PointVals == {Absent, Null} \cup
             {Num(n) : n \in {0, UnderestimatedPoints - 1, UnderestimatedPoints,
                              UnderestimatedPoints + 5}}
AssigneeVals == {Absent, Null, Obj("alice"), Obj("bob")}

Issues == [key : {1}, status : StatusVals, created : TimeVals,
           updated : TimeVals, points : PointVals, assignee : AssigneeVals]

NoArg == [issue |-> Absent, sprint_start |-> Absent, sprint_end |-> Absent]
NoResult == Return("")

(***************************************************************************)
(* The upstream service                                                    *)
(***************************************************************************)
\* The list a request addresses: resource 0 is the board's closed sprints,
\* resource i > 0 the issues of the sprint with id i.
Listing(res) == IF res = 0 THEN db.sprints ELSE db.issues[res]

Remaining(req) ==
    IF Len(Listing(req.res)) > req.startAt
    THEN Len(Listing(req.res)) - req.startAt ELSE 0

IsLastVals == {"true", "false", "absent"}

\* What the service may answer: a server of kind "any" picks the page size
\* and the isLast indicator freely (or leaves the indicator out); a server
\* of kind "paged" serves pages of RunPageSize records and sets isLast on
\* the page that ends the list.
ServerAnswers(req) ==
    IF db.server = "any"
    THEN {[n |-> n, isLast |-> l] : n \in 0..Remaining(req), l \in IsLastVals}
    ELSE LET n == IF Remaining(req) < RunPageSize
                  THEN Remaining(req) ELSE RunPageSize
         IN  {[n |-> n,
               isLast |-> IF req.startAt + n >= Len(Listing(req.res))
                          THEN "true" ELSE "false"]}

\* data.get("values", []) / data.get("issues", []): the records of the page
PageOf(req, resp) ==
    SubSeq(Listing(req.res), req.startAt + 1, req.startAt + resp.n)

(***************************************************************************)
(* The fetch loops                                                         *)
(***************************************************************************)
\* data.get("isLast", True)
IsLastOf(resp) == IF resp.isLast = "absent" THEN TRUE ELSE resp.isLast = "true"

\* get_sprints: "if data.get("isLast", True): break"
SprintsLoopBreaks(resp) == IsLastOf(resp)

\* get_issues_for_sprint: "if data.get("isLast", True) or len(...) == 0: break"
IssuesLoopBreaks(resp) == IsLastOf(resp) \/ resp.n = 0

NextStartAtByOne(start, n) == start + 1

\* start_at += len(data.get(..., []))
NextStartAt(start, n) == start + n

CallRequests == SubSeq(requests, callStart + 1, Len(requests))
CallResponses == SubSeq(responses, callStart + 1, Len(responses))

GsRequest ==
    /\ pc = "gs_request"
    /\ Len(CallRequests) < MaxRequests
    /\ requests' = Append(requests, [res |-> 0, startAt |-> start_at])
    /\ pc' = "gs_await"
    /\ UNCHANGED <<db, start_at, fetched, responses, callStart, sprints, si,
                   issues, ii, records, summary, err, arg, result>>

GsResponse ==
    /\ pc = "gs_await"
    /\ \E resp \in ServerAnswers(requests[Len(requests)]) :
         LET page == PageOf(requests[Len(requests)], resp)
         IN  /\ responses' = Append(responses, resp)
             /\ fetched' = fetched \o page
             /\ IF SprintsLoopBreaks(resp)
                THEN /\ sprints' = fetched'
                     /\ si' = 1
                     /\ pc' = "for_sprint"
                     /\ start_at' = start_at
                ELSE /\ start_at' = NextStartAt(start_at, Len(page))
                     /\ pc' = "gs_request"
                     /\ UNCHANGED <<sprints, si>>
    /\ UNCHANGED <<db, requests, callStart, issues, ii, records, summary, err,
                   arg, result>>

GiRequest ==
    /\ pc = "gi_request"
    /\ Len(CallRequests) < MaxRequests
    /\ requests' = Append(requests, [res |-> sprints[si].id, startAt |-> start_at])
    /\ pc' = "gi_await"
    /\ UNCHANGED <<db, start_at, fetched, responses, callStart, sprints, si,
                   issues, ii, records, summary, err, arg, result>>

GiResponse ==
    /\ pc = "gi_await"
    /\ \E resp \in ServerAnswers(requests[Len(requests)]) :
         LET page == PageOf(requests[Len(requests)], resp)
         IN  /\ responses' = Append(responses, resp)
             /\ fetched' = fetched \o page
             /\ IF IssuesLoopBreaks(resp)
                THEN /\ issues' = fetched'
                     /\ ii' = 1
                     /\ pc' = "for_issue"
                     /\ start_at' = start_at
                ELSE /\ start_at' = NextStartAt(start_at, Len(page))
                     /\ pc' = "gi_request"
                     /\ UNCHANGED <<issues, ii>>
    /\ UNCHANGED <<db, requests, callStart, sprints, si, records, summary, err,
                   arg, result>>

(***************************************************************************)
(* analyze_spillovers                                                      *)
(***************************************************************************)
\* "not x" for sprint.get("startDate") / sprint.get("endDate")
Falsy(x) == x.tag \in {"absent", "null"}

SprintSkippedOnStartOnly(sprint) == Falsy(sprint.startDate)

\* "if not sprint_start or not sprint_end: continue"
SprintSkipped(sprint) == Falsy(sprint.startDate) \/ Falsy(sprint.endDate)

\* the for loop over sprints is exhausted: on to the data frame
ForSprintEnd ==
    /\ pc = "for_sprint"
    /\ si > Len(sprints)
    /\ pc' = "aggregate"
    /\ UNCHANGED <<db, start_at, fetched, requests, responses, callStart,
                   sprints, si, issues, ii, records, summary, err, arg, result>>

ForSprintSkip ==
    /\ pc = "for_sprint"
    /\ si <= Len(sprints)
    /\ SprintSkipped(sprints[si])
    /\ si' = si + 1
    /\ UNCHANGED <<db, pc, start_at, fetched, requests, responses, callStart,
                   sprints, issues, ii, records, summary, err, arg, result>>

\* issues = get_issues_for_sprint(sprint_id): the call starts
ForSprintFetch ==
    /\ pc = "for_sprint"
    /\ si <= Len(sprints)
    /\ ~SprintSkipped(sprints[si])
    /\ start_at' = 0
    /\ fetched' = <<>>
    /\ callStart' = Len(requests)
    /\ pc' = "gi_request"
    /\ UNCHANGED <<db, requests, responses, sprints, si, issues, ii, records,
                   summary, err, arg, result>>

\* the dict appended to records
RecordOf(sprint, issue, reason) ==
    [Sprint |-> sprint.id,
     Assignee |-> AssigneeOf(issue).val,
     IssueKey |-> issue.key,
     Status |-> StatusOf(issue).val,
     StoryPoints |-> StoryPointsOf(issue),
     Reason |-> reason]

\* one pass of "for issue in issues"
ForIssue ==
    /\ pc = "for_issue"
    /\ ii <= Len(issues)
    /\ LET sprint == sprints[si]
           issue == issues[ii]
           reason == get_spillover_reason(issue, sprint.startDate, sprint.endDate)
       IN  IF AssigneeOf(issue).kind = "raise"
           THEN /\ pc' = "error"
                /\ err' = AssigneeOf(issue).val
                /\ UNCHANGED <<ii, records>>
           ELSE IF StatusOf(issue).kind = "raise"
           THEN /\ pc' = "error"
                /\ err' = StatusOf(issue).val
                /\ UNCHANGED <<ii, records>>
           ELSE IF reason.kind = "raise"
           THEN /\ pc' = "error"
                /\ err' = reason.val
                /\ UNCHANGED <<ii, records>>
           ELSE /\ records' = Append(records, RecordOf(sprint, issue, reason.val))
                /\ ii' = ii + 1
                /\ UNCHANGED <<pc, err>>
    /\ UNCHANGED <<db, start_at, fetched, requests, responses, callStart,
                   sprints, si, issues, summary, arg, result>>

ForIssueEnd ==
    /\ pc = "for_issue"
    /\ ii > Len(issues)
    /\ si' = si + 1
    /\ pc' = "for_sprint"
    /\ UNCHANGED <<db, start_at, fetched, requests, responses, callStart,
                   sprints, issues, ii, records, summary, err, arg, result>>

\* df[df["Spillover Reason"].notna()]
Notna(recs) == SelectSeq(recs, LAMBDA r : r.Reason # NoneReason)

RECURSIVE SumPoints(_, _)
\* "Story Points": "sum" over the rows I of a group; a None entry is skipped
SumPoints(df, I) ==
    IF I = {} THEN 0
    ELSE LET i == CHOOSE x \in I : TRUE
         IN  (IF df[i].StoryPoints.tag = "num" THEN df[i].StoryPoints.v ELSE 0)
             + SumPoints(df, I \ {i})

GroupRows(df, a, r) == {i \in DOMAIN df : df[i].Assignee = a /\ df[i].Reason = r}

GroupByFirstRowOnly(df) ==
    {[Assignee |-> df[i].Assignee, Reason |-> df[i].Reason,
      SpilledIssues |-> 1,
      StoryPoints |-> SumPoints(df, GroupRows(df, df[i].Assignee, df[i].Reason))]
     : i \in DOMAIN df}

\* groupby(["Assignee", "Spillover Reason"]).agg({"Issue Key": "count",
\* "Story Points": "sum"}): one row per key pair that occurs.  No Assignee
\* value is None here (AssigneeOf returns a name or raises), so the rows
\* groupby drops for a missing key do not arise.
GroupBy(df) ==
    {[Assignee |-> df[i].Assignee, Reason |-> df[i].Reason,
      SpilledIssues |-> Cardinality(GroupRows(df, df[i].Assignee, df[i].Reason)),
      StoryPoints |-> SumPoints(df, GroupRows(df, df[i].Assignee, df[i].Reason))]
     : i \in DOMAIN df}

\* lines 105-114.  A frame built from an empty list has no columns, and
\* df["Spillover Reason"] raises KeyError.
Aggregate ==
    /\ pc = "aggregate"
    /\ IF records = <<>>
       THEN /\ pc' = "error"
            /\ err' = "KeyError"
            /\ UNCHANGED summary
       ELSE /\ summary' = GroupBy(Notna(records))
            /\ pc' = "aggregated"
            /\ UNCHANGED err
    /\ UNCHANGED <<db, start_at, fetched, requests, responses, callStart,
                   sprints, si, issues, ii, records, arg, result>>

(***************************************************************************)
(* Initial states: the data the service holds                              *)
(***************************************************************************)
Sprint(i, s, e) == [id |-> i, startDate |-> s, endDate |-> e]
Issue(k, st, p, a) ==
    [key |-> k, status |-> st, created |-> Ts(0), updated |-> Ts(0),
     points |-> p, assignee |-> a]

\* paging scenarios: an arbitrary server; either up to MaxRecords sprints
\* without dates, or one dated sprint with up to MaxRecords issues
PagingDBs ==
    {[server |-> "any",
      sprints |-> [i \in 1..n |-> Sprint(i, Absent, Ts(MaxTime))],
      issues |-> [i \in 1..n |-> <<>>]] : n \in 0..MaxRecords}
    \cup
    {[server |-> "any",
      sprints |-> <<Sprint(1, Ts(0), Ts(MaxTime))>>,
      issues |-> [i \in {1} |->
                    [k \in 1..m |-> Issue(k, Obj("In Progress"), Num(0), Obj("alice"))]]]
     : m \in 0..MaxRecords}

RunWindows == {<<Ts(0), Ts(MaxTime)>>, <<Absent, Ts(MaxTime)>>, <<Ts(0), Null>>}

RunIssueVals ==
    {Issue(1, Obj("Done"), Num(UnderestimatedPoints), Obj("alice")),
     Issue(1, Obj("In Progress"), Num(0), Obj("alice")),
     Issue(1, Obj("To Do"), Num(UnderestimatedPoints), Obj("alice")),
     Issue(1, Obj("To Do"), Null, Obj("bob")),
     Issue(1, Obj("In Progress"), Absent, Absent),
     Issue(1, Obj("In Progress"), Num(0), Null)}

\* the issues of sprint s, when the issues flat[1..m] are dealt to the
\* sprints by the nondecreasing map owner; a key is the position in the list
Dealt(flat, owner, s) ==
    LET lo == Cardinality({p \in DOMAIN flat : owner[p] < s})
        cnt == Cardinality({p \in DOMAIN flat : owner[p] = s})
    IN  [j \in 1..cnt |-> [flat[lo + j] EXCEPT !.key = j]]

\* nondecreasing maps from the positions 1..m to the sprints 1..k
Owners(m, k) ==
    {o \in [1..m -> 1..k] : \A p, q \in 1..m : p <= q => o[p] <= o[q]}

\* pipeline scenarios: a paged server, k sprints with the windows w, the
\* issues flat dealt to them by owner
RunDB(k, w, flat, owner) ==
    [server |-> "paged",
     sprints |-> [i \in 1..k |-> Sprint(i, w[i][1], w[i][2])],
     issues |-> [i \in 1..k |-> Dealt(flat, owner, i)]]

\* up to MaxRunSprints sprints with or without dates, up to MaxRunIssues
\* issues in all
InitRunDB ==
    \E k \in 1..MaxRunSprints, m \in 0..MaxRunIssues :
        \E w \in [1..k -> RunWindows], flat \in [1..m -> RunIssueVals],
           owner \in Owners(m, k) :
            db = RunDB(k, w, flat, owner)

Init ==
    /\ (db \in PagingDBs \/ InitRunDB)
    /\ pc = "gs_request"
    /\ start_at = 0
    /\ fetched = <<>>
    /\ requests = <<>>
    /\ responses = <<>>
    /\ callStart = 0
    /\ sprints = <<>>
    /\ si = 0
    /\ issues = <<>>
    /\ ii = 0
    /\ records = <<>>
    /\ summary = {}
    /\ err = ""
    /\ arg = NoArg
    /\ result = NoResult

Next ==
    \/ GsRequest
    \/ GsResponse
    \/ ForSprintEnd
    \/ ForSprintSkip
    \/ ForSprintFetch
    \/ GiRequest
    \/ GiResponse
    \/ ForIssue
    \/ ForIssueEnd
    \/ Aggregate

Spec == Init /\ [][Next]_vars

(***************************************************************************)
(* The classifier on its own, over all its inputs                          *)
(***************************************************************************)
NoDB == [server |-> "any", sprints |-> <<>>, issues |-> <<>>]

InitClassify ==
    /\ arg \in [issue : Issues, sprint_start : TimeVals, sprint_end : TimeVals]
    /\ pc = "classify"
    /\ result = NoResult
    /\ db = NoDB
    /\ start_at = 0
    /\ fetched = <<>>
    /\ requests = <<>>
    /\ responses = <<>>
    /\ callStart = 0
    /\ sprints = <<>>
    /\ si = 0
    /\ issues = <<>>
    /\ ii = 0
    /\ records = <<>>
    /\ summary = {}
    /\ err = ""

Classify ==
    /\ pc = "classify"
    /\ result' = get_spillover_reason(arg.issue, arg.sprint_start, arg.sprint_end)
    /\ pc' = IF result'.kind = "raise" THEN "raised" ELSE "returned"
    /\ UNCHANGED <<db, start_at, fetched, requests, responses, callStart,
                   sprints, si, issues, ii, records, summary, err, arg>>

SpecClassify == InitClassify /\ [][Classify]_vars

(***************************************************************************)
(* Properties of the fetch loops (specification Spec)                      *)
(***************************************************************************)
FetchingPcs == {"gs_request", "gs_await", "gi_request", "gi_await"}

\* the running (or last) fetch call has an answer to each of its requests
CallAnswered == Len(CallResponses) > 0 /\ Len(CallResponses) = Len(CallRequests)

LastResponse == CallResponses[Len(CallResponses)]

RECURSIVE Served(_, _)
\* records served by the first i pages of the response sequence R
Served(R, i) == IF i = 0 THEN 0 ELSE R[i].n + Served(R, i - 1)

\* the list the running (or last) fetch call returned
CallResult == IF CallRequests[1].res = 0 THEN sprints ELSE issues

\* C1 (stated for the empty page): in both fetch loops, once the server has
\* answered a request with an empty page and isLast=false, the loop has
\* stopped: it is not about to request the same offset again.
C1_EmptyPageStopsLoop ==
    (CallAnswered /\ LastResponse.n = 0 /\ LastResponse.isLast = "false")
        => pc \notin FetchingPcs

\* Supplementary to C1: get_issues_for_sprint does stop on an empty page.
IssuesLoopStopsOnEmptyPage ==
    (CallAnswered /\ LastResponse.n = 0 /\ CallRequests[1].res # 0)
        => pc \notin FetchingPcs

\* N records served as k non-empty pages, isLast=true on the k-th page only
ServedAsKPages(R) ==
    /\ Len(R) > 0
    /\ \A i \in DOMAIN R : R[i].n > 0
    /\ \A i \in DOMAIN R : (R[i].isLast = "true") <=> (i = Len(R))
    /\ \A i \in DOMAIN R : R[i].isLast # "absent"

\* C2: when the server has served N records as k non-empty pages with
\* isLast=true on the k-th only, the loop has sent exactly k requests, at
\* offset 0 and then at the running total of the records received, it has
\* returned exactly the first N records of the list in order, and it is no
\* longer fetching (there is no (k+1)-th request).
C2_KPagesKRequests ==
    ServedAsKPages(CallResponses) =>
        /\ Len(CallRequests) = Len(CallResponses)
        /\ \A i \in DOMAIN CallRequests :
              CallRequests[i].startAt = Served(CallResponses, i - 1)
        /\ pc \notin FetchingPcs
        /\ CallResult = SubSeq(Listing(CallRequests[1].res), 1,
                               Served(CallResponses, Len(CallResponses)))

\* C2's case: three pages fetched by get_issues_for_sprint
C2_Witness ==
    /\ ServedAsKPages(CallResponses)
    /\ Len(CallResponses) = 3
    /\ CallRequests[1].res # 0
    /\ Len(issues) = 3

\* C3: after a non-empty page on which the server did not signal "last
\* page" (isLast=false, or no isLast indicator at all) the loop goes on: it
\* is at its next request.
C3_GoesOnUnlessSignalled ==
    (CallAnswered /\ LastResponse.n > 0 /\ LastResponse.isLast # "true")
        => pc \in {"gs_request", "gi_request"}

\* Supplementary to C3: the loop does go on after a non-empty page that
\* carries an explicit isLast=false.
GoesOnAfterExplicitFalse ==
    (CallAnswered /\ LastResponse.n > 0 /\ LastResponse.isLast = "false")
        => pc \in {"gs_request", "gi_request"}

(***************************************************************************)
(* Properties of the classifier (specification SpecClassify)               *)
(***************************************************************************)
Called == pc # "classify"

\* status category equal to "done" under case-insensitive comparison
IsDone(issue) ==
    issue.status.tag = "obj" /\ issue.status.s \in {"Done", "done", "DONE"}

\* the status is absent or names a category other than "done"
NonDone(issue) == issue.status.tag # "null" /\ ~IsDone(issue)

\* both values are timestamps and a is strictly after b
After(a, b) == a.tag = "ts" /\ b.tag = "ts" /\ a.v > b.v

\* the fields the classifier reads through a nested get are objects or absent
WellFormedFields(issue) == issue.status.tag # "null" /\ issue.assignee.tag # "null"

\* every timestamp of the call is present and well formed
AllTimestamps ==
    /\ arg.issue.created.tag = "ts" /\ arg.issue.updated.tag = "ts"
    /\ arg.sprint_start.tag = "ts" /\ arg.sprint_end.tag = "ts"

\* C4: for every issue whose status category is "done" (any case)
\* get_spillover_reason returns None, whatever the other fields are
\* (present, missing or null) and whatever the sprint window is.
C4_DoneIsAbsent ==
    (Called /\ IsDone(arg.issue)) => result = Return(NoneReason)

\* C5: for every non-Done issue (all timestamps well formed) created
\* strictly after sprint start
\* get_spillover_reason returns "Scope added mid-sprint", whatever the later
\* rules would say; an issue created exactly at sprint start does not get
\* this label.
C5_ScopeFirst ==
    /\ (Called /\ AllTimestamps /\ NonDone(arg.issue)
               /\ After(arg.issue.created, arg.sprint_start))
          => result = Return(R_SCOPE)
    /\ (Called /\ AllTimestamps /\ arg.issue.created = arg.sprint_start)
          => result # Return(R_SCOPE)

\* the rules after "Scope added mid-sprint", as the specification orders
\* them; a missing or null estimate counts as zero, a missing or null
\* assignee as "Unassigned"
ExpectedLaterLabel(issue, sprint_end) ==
    IF issue.points.tag = "num" /\ issue.points.v >= UnderestimatedPoints
    THEN R_EFFORT
    ELSE IF After(issue.updated, sprint_end) THEN R_CARRIED
    ELSE IF issue.assignee.tag # "obj" THEN R_NOASSIGNEE
    ELSE R_GENERAL

\* C6: for every non-Done issue (all timestamps well formed) not created
\* after sprint start the label is
\* that of the first matching rule in the order: points >= 8, updated after
\* sprint end, assignee Unassigned, general delay; one label is returned.
C6_LaterRulesInOrder ==
    (Called /\ AllTimestamps /\ NonDone(arg.issue)
            /\ ~After(arg.issue.created, arg.sprint_start))
        => result = Return(ExpectedLaterLabel(arg.issue, arg.sprint_end))

\* C7: get_spillover_reason never raises because of a missing or
\* unparseable timestamp: with the other fields well formed, every call
\* returns (None or a label).
C7_TimestampsNeverRaise ==
    (Called /\ WellFormedFields(arg.issue)) => result.kind = "return"

\* Supplementary to C4, C5 and C6: with status and assignee absent or
\* objects and every timestamp well formed, the rules apply in their order.
RulesOnWellFormedInput ==
    (Called /\ WellFormedFields(arg.issue) /\ AllTimestamps) =>
        result = Return(IF IsDone(arg.issue) THEN NoneReason
                        ELSE IF After(arg.issue.created, arg.sprint_start)
                             THEN R_SCOPE
                             ELSE ExpectedLaterLabel(arg.issue, arg.sprint_end))

(***************************************************************************)
(* Properties of the pipeline (specification Spec)                         *)
(***************************************************************************)
\* the assignee, the estimate or the status is absent or null
MissingField(issue) ==
    \/ issue.assignee.tag \in {"absent", "null"}
    \/ issue.points.tag \in {"absent", "null"}
    \/ issue.status.tag \in {"absent", "null"}

\* C8: an issue whose assignee, estimate or status is absent or null never
\* aborts the run: the run is never in error at such an issue.
C8_MissingFieldsTolerated ==
    ~(pc = "error" /\ ii \in DOMAIN issues /\ MissingField(issues[ii]))

\* the non-Done issues among the records the service has served, one per
\* (request, position in its page)
ServedSpilled ==
    {<<i, j>> \in (DOMAIN responses) \X (1..(MaxRecords + MaxRunIssues)) :
        /\ requests[i].res # 0
        /\ j <= responses[i].n
        /\ NonDone(Listing(requests[i].res)[requests[i].startAt + j])}

RECURSIVE SumCounts(_)
SumCounts(rows) ==
    IF rows = {} THEN 0
    ELSE LET r == CHOOSE x \in rows : TRUE
         IN  r.SpilledIssues + SumCounts(rows \ {r})

\* C9: after the aggregation step every record with a reason is counted in
\* exactly one (Assignee, Reason) row, that row counting the records of its
\* pair, and the counts of all rows sum to the number of non-Done issues
\* fetched, an issue fetched for several sprints counting once per sprint.
C9_RowsPartitionSpilled ==
    pc = "aggregated" =>
        /\ \A i \in DOMAIN records :
              records[i].Reason # NoneReason =>
                 /\ Cardinality({row \in summary :
                        /\ row.Assignee = records[i].Assignee
                        /\ row.Reason = records[i].Reason}) = 1
                 /\ \A row \in summary :
                        (row.Assignee = records[i].Assignee
                         /\ row.Reason = records[i].Reason)
                        => row.SpilledIssues =
                             Cardinality({j \in DOMAIN records :
                                 /\ records[j].Assignee = records[i].Assignee
                                 /\ records[j].Reason = records[i].Reason})
        /\ SumCounts(summary) = Cardinality(ServedSpilled)

\* C9's case: the same issue key spilled in two sprints, counted twice in
\* one row
C9_Witness ==
    /\ pc = "aggregated"
    /\ \E i, j \in DOMAIN records :
          /\ records[i].Sprint # records[j].Sprint
          /\ records[i].IssueKey = records[j].IssueKey
          /\ records[i].Reason # NoneReason
          /\ records[i].Assignee = records[j].Assignee
          /\ records[i].Reason = records[j].Reason
          /\ \E row \in summary :
                /\ row.Assignee = records[i].Assignee
                /\ row.Reason = records[i].Reason
                /\ row.SpilledIssues = 2

\* the sprint has no start timestamp or no end timestamp
LacksDate(sprint) ==
    sprint.startDate.tag # "ts" \/ sprint.endDate.tag # "ts"

\* C10: no issue-list request is ever sent for a sprint that lacks a start
\* or an end timestamp and no record of it is ever appended; the step that
\* meets such a sprint moves on to the next sprint without error and leaves
\* the requests and the records as they were.
C10_DatelessSprintSkipped ==
    /\ [](\A i \in DOMAIN requests :
            requests[i].res # 0 => ~LacksDate(db.sprints[requests[i].res]))
    /\ [](\A i \in DOMAIN records : ~LacksDate(db.sprints[records[i].Sprint]))
    /\ [][(pc = "for_sprint" /\ si \in DOMAIN sprints /\ LacksDate(sprints[si]))
            => (/\ si' = si + 1
                /\ pc' = "for_sprint"
                /\ err' = ""
                /\ records' = records
                /\ requests' = requests)]_vars

\* C10's case: a sprint without dates that has issues was passed, and the
\* sprint after it was fetched and recorded
C10_Witness ==
    /\ pc = "aggregated"
    /\ Len(db.sprints) = 2
    /\ LacksDate(db.sprints[1])
    /\ Len(db.issues[1]) > 0
    /\ \E i \in DOMAIN records : records[i].Sprint = 2
=============================================================================
